---------------------------- MODULE Spec2Model ----------------------------
(***************************************************************************)
(* Model of notebooks/parameter_tuning_grid_search.ipynb: the grid search  *)
(* over a parameter grid with cross-validation, the refit of the best      *)
(* combination, and the reshaping of the results table (column selection,  *)
(* shorten_param renaming, pivot).                                         *)
(*                                                                         *)
(* The notebook's own code is the grid, the GridSearchCV call with         *)
(* n_jobs=2 and cv=2, shorten_param and the DataFrame calls.  The steps    *)
(* behind GridSearchCV.fit and the DataFrame methods are scikit-learn's    *)
(* and pandas' (the versions the notebook targets, scikit-learn >= 1.5):   *)
(* they are modelled as those libraries execute the notebook's calls, with *)
(* the defaults the notebook leaves in place (error_score=nan, refit=True, *)
(* pre-dispatched joblib workers, StratifiedKFold without shuffling).      *)
(***************************************************************************)
EXTENDS Integers, Sequences, FiniteSets, TLC

(***************************************************************************)
(* Strings are sequences of one-character strings, so that "in", rsplit    *)
(* and sorted() are computed character by character.                       *)
(***************************************************************************)
Alphabet == <<"_", "a", "b", "c", "d", "e", "f", "g", "h", "i", "j", "k", "l", "m",
              "n", "o", "p", "q", "r", "s", "t", "u", "v", "w", "x", "y", "z">>

Ord(c) == CHOOSE i \in 1..Len(Alphabet) : Alphabet[i] = c

\* Python's str comparison (used by sorted(p.items())): s < t
RECURSIVE StrLess(_, _)
StrLess(s, t) ==
    IF t = <<>> THEN FALSE
    ELSE IF s = <<>> THEN TRUE
    ELSE IF Head(s) = Head(t) THEN StrLess(Tail(s), Tail(t))
    ELSE Ord(Head(s)) < Ord(Head(t))

SEP == <<"_", "_">>

\* sep occurs in s at position i (1-based)
OccursAt(s, sep, i) ==
    /\ i >= 1
    /\ i + Len(sep) - 1 <= Len(s)
    /\ SubSeq(s, i, i + Len(sep) - 1) = sep

\* str.find: the lowest position of sep in s, scanning upwards from i; 0 if none
RECURSIVE Find(_, _, _)
Find(s, sep, i) ==
    IF i + Len(sep) - 1 > Len(s) THEN 0
    ELSE IF OccursAt(s, sep, i) THEN i
    ELSE Find(s, sep, i + 1)

\* str.rfind: the highest position of sep in s, scanning downwards from i; 0 if none
RECURSIVE RFind(_, _, _)
RFind(s, sep, i) ==
    IF i < 1 THEN 0
    ELSE IF OccursAt(s, sep, i) THEN i
    ELSE RFind(s, sep, i - 1)

\* `"__" in param_name`
Contains(s, sep) == Find(s, sep, 1) # 0

\* s.split(sep, 1): cut at the first occurrence (the list has one element if none)
Split1(s, sep) ==
    LET i == Find(s, sep, 1)
    IN  IF i = 0 THEN <<s>>
        ELSE <<SubSeq(s, 1, i - 1), SubSeq(s, i + Len(sep), Len(s))>>

\* s.rsplit(sep, 1): cut at the last occurrence (the list has one element if none)
RSplit1(s, sep) ==
    LET i == RFind(s, sep, Len(s) - Len(sep) + 1)
    IN  IF i = 0 THEN <<s>>
        ELSE <<SubSeq(s, 1, i - 1), SubSeq(s, i + Len(sep), Len(s))>>

\* a plausible slip: split instead of rsplit keeps everything after the FIRST "__"
shorten_param_split(param_name) ==
    IF Contains(param_name, SEP) THEN Split1(param_name, SEP)[2] ELSE param_name

shorten_param(param_name) ==
    IF Contains(param_name, SEP) THEN RSplit1(param_name, SEP)[2] ELSE param_name

(***************************************************************************)
(* Numbers.  Scores, means and parameter values are floats; they are kept  *)
(* as exact fractions num/den, with nan for numpy's NaN (the score of a    *)
(* failed fit under error_score=nan).                                      *)
(***************************************************************************)
Float(n, d) == [nan |-> FALSE, num |-> n, den |-> d]

NaN == [nan |-> TRUE, num |-> 0, den |-> 1]

\* a < b and a = b on floats; every comparison with NaN is false
FLess(a, b) == ~a.nan /\ ~b.nan /\ a.num * b.den < b.num * a.den

FEq(a, b) == ~a.nan /\ ~b.nan /\ a.num * b.den = b.num * a.den

RECURSIVE SumNum(_)
SumNum(xs) == IF xs = <<>> THEN 0 ELSE Head(xs).num + SumNum(Tail(xs))

AnyNaN(xs) == \E i \in 1..Len(xs) : xs[i].nan

\* np.average(array, axis=1) of one row of split scores (all of denominator 1)
Mean(xs) == IF AnyNaN(xs) THEN NaN ELSE Float(SumNum(xs), Len(xs))

(***************************************************************************)
(* The notebook's call: GridSearchCV(model, param_grid, n_jobs=2, cv=2).   *)
(***************************************************************************)
n_jobs == 2

NotebookCv == 2

\* bounds of the explored inputs
MaxParams == 2
MaxVals == 2
MaxScore == 1
MaxSpecial == 2
MaxCands == 4
MaxRows == 4
MaxSplits == 3
MaxLen == 3

(***************************************************************************)
(* ParameterGrid (sklearn.model_selection).  param_grid is a dict in       *)
(* insertion order: a sequence of items [name, values].                    *)
(***************************************************************************)
\* a slip: the grid is not validated
GridNotChecked(grid) == TRUE

\* ParameterGrid.__init__: an empty value sequence is rejected (ValueError)
GridIsValid(grid) == \A i \in 1..Len(grid) : Len(grid[i].values) # 0

\* sorted(p.items()): insertion sort on the (distinct) names
RECURSIVE InsertItem(_, _)
InsertItem(item, items) ==
    IF items = <<>> THEN <<item>>
    ELSE IF StrLess(item.name, Head(items).name) THEN <<item>> \o items
    ELSE <<Head(items)>> \o InsertItem(item, Tail(items))

RECURSIVE SortedItems(_)
SortedItems(grid) ==
    IF grid = <<>> THEN <<>> ELSE InsertItem(Head(grid), SortedItems(Tail(grid)))

RECURSIVE Concat(_)
Concat(seqs) == IF seqs = <<>> THEN <<>> ELSE Head(seqs) \o Concat(Tail(seqs))

\* a slip: zip instead of product pairs the i-th values of every parameter
ZipValues(valueSeqs) ==
    IF valueSeqs = <<>> THEN << <<>> >>
    ELSE LET n == CHOOSE m \in 0..Len(valueSeqs[1]) :
                      /\ \A k \in 1..Len(valueSeqs) : m <= Len(valueSeqs[k])
                      /\ \E k \in 1..Len(valueSeqs) : m = Len(valueSeqs[k])
         IN  [i \in 1..n |-> [k \in 1..Len(valueSeqs) |-> valueSeqs[k][i]]]

\* itertools.product(*values): the last sequence varies fastest
RECURSIVE Product(_)
Product(valueSeqs) ==
    IF valueSeqs = <<>> THEN << <<>> >>
    ELSE LET rest == Product(Tail(valueSeqs))
             vs == Head(valueSeqs)
         IN  Concat([i \in 1..Len(vs) |-> [j \in 1..Len(rest) |-> <<vs[i]>> \o rest[j]]])

\* dict(zip(keys, v)): a parameter combination maps every name to one value
ParamsDict(items, v) ==
    [name \in {items[k].name : k \in 1..Len(items)} |->
        v[CHOOSE k \in 1..Len(items) : items[k].name = name]]

\* list(ParameterGrid(param_grid)) for a valid grid
ParameterGrid(grid) ==
    LET items == SortedItems(grid)
        tuples == Product([k \in 1..Len(items) |-> items[k].values])
    IN  [c \in 1..Len(tuples) |-> ParamsDict(items, tuples[c])]

(***************************************************************************)
(* check_cv(cv=2, y, classifier=True) is StratifiedKFold(n_splits=2): its  *)
(* _make_test_folds assigns every row a test fold, class by class.         *)
(* y holds the class of every row, encoded by first appearance.            *)
(***************************************************************************)
Rows(y) == 1..Len(y)

Classes(y) == {y[r] : r \in Rows(y)}

CountOf(y, k) == Cardinality({r \in Rows(y) : y[r] = k})

\* np.sort(y_encoded)[j], j 1-based
YOrder(y, j) ==
    CHOOSE k \in Classes(y) :
        /\ Cardinality({r \in Rows(y) : y[r] <= k}) >= j
        /\ Cardinality({r \in Rows(y) : y[r] < k}) < j

\* allocation[i, k] = bincount(y_order[i::n_splits])[k]
Allocation(y, n_splits, i, k) ==
    Cardinality({j \in Rows(y) : (j - 1) % n_splits = i /\ YOrder(y, j) = k})

\* allocation[0, k] + ... + allocation[f, k]
RECURSIVE AllocatedUpTo(_, _, _, _)
AllocatedUpTo(y, n_splits, f, k) ==
    IF f < 0 THEN 0
    ELSE Allocation(y, n_splits, f, k) + AllocatedUpTo(y, n_splits, f - 1, k)

\* test_folds[y_encoded == k] = arange(n_splits).repeat(allocation[:, k])
TestFold(y, n_splits, r) ==
    LET k == y[r]
        pos == Cardinality({q \in Rows(y) : q <= r /\ y[q] = k})
        upTo(f) == AllocatedUpTo(y, n_splits, f, k)
    IN  CHOOSE f \in 0..(n_splits - 1) :
            /\ upTo(f) >= pos
            /\ \A g \in 0..(n_splits - 1) : g < f => upTo(g) < pos

\* the splitter refuses y when every class has fewer members than n_splits
SplitIsValid(y, n_splits) == \E k \in Classes(y) : CountOf(y, k) >= n_splits

TestRows(y, n_splits, i) == {r \in Rows(y) : TestFold(y, n_splits, r) = i}

\* a slip: the estimator is trained on every row, the held-out ones included
TrainRowsLeak(y, n_splits, i) == Rows(y)

\* BaseCrossValidator.split: train_index = indices[logical_not(test_index)]
TrainRows(y, n_splits, i) == Rows(y) \ TestRows(y, n_splits, i)

\* list(cv.split(X, y)): split i (1-based) holds out fold i-1
Splits(y, n_splits) ==
    [i \in 1..n_splits |-> [train |-> TrainRows(y, n_splits, i - 1),
                            test |-> TestRows(y, n_splits, i - 1)]]

(***************************************************************************)
(* _fit_and_score outcomes and BaseSearchCV._format_results.               *)
(***************************************************************************)
Scores == {Float(n, 1) : n \in 0..MaxScore}

Outcomes == Scores \cup {NaN}

\* task t of product(enumerate(candidate_params), enumerate(cv.split(X, y)))
CandOf(t, n_splits) == ((t - 1) \div n_splits) + 1

SplitOf(t, n_splits) == ((t - 1) % n_splits) + 1

\* the record _fit_and_score returns for task t (with the arguments it was given)
FitResult(o, parameters, split) ==
    [fit_error |-> o.nan, test_scores |-> o, parameters |-> parameters,
     train |-> split.train, test |-> split.test]

\* array[cand, split] = out[cand * n_splits + split]["test_scores"]
SplitScores(outs, c, n_splits) ==
    [i \in 1..n_splits |-> outs[(c - 1) * n_splits + i][1].test_scores]

\* the variance of one row of split scores; std_test_score is its square root
Variance(xs) ==
    IF AnyNaN(xs) THEN NaN
    ELSE LET n == Len(xs)
             sq == [i \in 1..n |-> Float(xs[i].num * xs[i].num, 1)]
         IN  Float(n * SumNum(sq) - SumNum(xs) * SumNum(xs), n * n)

\* np.nanmin(array_means): the index of a smallest mean that is not NaN
NanMinIndex(means) ==
    CHOOSE i \in 1..Len(means) :
        /\ ~means[i].nan
        /\ \A j \in 1..Len(means) : ~FLess(means[j], means[i])

\* np.nan_to_num(array_means, nan=np.nanmin(array_means) - 1)
NanToNum(means) ==
    LET m == means[NanMinIndex(means)]
    IN  [i \in 1..Len(means) |->
            IF means[i].nan THEN Float(m.num - m.den, m.den) ELSE means[i]]

\* rankdata(-array_means, method="min"): 1 + the number of strictly larger means
RankMin(filled) ==
    [i \in 1..Len(filled) |->
        1 + Cardinality({j \in 1..Len(filled) : FLess(filled[i], filled[j])})]

\* a slip: ranking the means ascending gives rank 1 to the lowest mean
RankAscending(means) ==
    IF \A i \in 1..Len(means) : means[i].nan THEN [i \in 1..Len(means) |-> 1]
    ELSE LET filled == NanToNum(means)
         IN  [i \in 1..Len(filled) |->
                1 + Cardinality({j \in 1..Len(filled) : FLess(filled[j], filled[i])})]

\* rank_test_score of _format_results._store
RankTestScore(means) ==
    IF \A i \in 1..Len(means) : means[i].nan THEN [i \in 1..Len(means) |-> 1]
    ELSE RankMin(NanToNum(means))

\* cv_results_, one row per candidate
FormatResults(candidates, n_splits, outs) ==
    LET scores(c) == SplitScores(outs, c, n_splits)
        store(means, ranks) ==
            [c \in 1..Len(candidates) |->
                [params |-> candidates[c],
                 split_test_score |-> scores(c),
                 mean_test_score |-> means[c],
                 std_test_score |-> Variance(scores(c)),
                 rank_test_score |-> ranks[c]]]
    IN  CHOOSE res \in
            UNION {{store(means, ranks) : ranks \in {RankTestScore(means)}} :
                      means \in {[c \in 1..Len(candidates) |-> Mean(scores(c))]}} : TRUE

\* _select_best_index: results["rank_test_score"].argmin(), the first minimum
SelectBestIndex(res) ==
    CHOOSE i \in 1..Len(res) :
        /\ \A j \in 1..Len(res) : res[i].rank_test_score <= res[j].rank_test_score
        /\ \A j \in 1..(i - 1) : res[j].rank_test_score > res[i].rank_test_score

\* a slip (or error_score="raise"): one failed fit ends the search
AnyFitFailed(outs) == \E t \in 1..Len(outs) : outs[t][1].fit_error

\* _warn_or_raise_about_fit_failures raises when every fit failed
AllFitsFailed(outs) == \A t \in 1..Len(outs) : outs[t][1].fit_error

(***************************************************************************)
(* State.                                                                  *)
(***************************************************************************)
VARIABLES
    param_grid,       \* the notebook's param_grid (an input of the search)
    y,                \* target_train: the class of every training row
    cv,               \* the cv argument of GridSearchCV: the number of splits
    base,             \* environment: the outcome of an undisturbed fit
    budget,           \* environment: how many fits may deviate from base
    fit_outcome,      \* environment: the outcome of each task's fit, once it ran
    pc,               \* the statement the notebook is at
    error,            \* the exception that ended the run, "none" otherwise
    candidate_params, \* evaluate_candidates: list(candidate_params)
    splits,           \* list(cv.split(X, y))
    next_task,        \* the next task joblib hands to a free worker
    in_flight,        \* the tasks the workers are running
    out,              \* the results list Parallel returns, one slot per task
    results,          \* the local `results` of fit
    best_index_,      \* 1-based; 0 while unset
    best_params_,     \* <<>> while unset, <<params>> once set
    best_estimator_,  \* <<>> while unset, <<[params, fitted]>> once set
    refit_count,      \* the number of fits on the full training set
    cv_results_,      \* <<>> while unset
    predict_log,      \* the parameters of the estimator behind each score/predict
    cv_results,       \* the notebook's DataFrame, <<>> while unset
    pivoted_cv_results

vars == <<param_grid, y, cv, base, budget, fit_outcome, pc, error, candidate_params,
          splits, next_task, in_flight, out, results, best_index_, best_params_,
          best_estimator_, refit_count, cv_results_, predict_log, cv_results,
          pivoted_cv_results>>

inputs == <<param_grid, y, cv, base, budget>>

searchState == <<candidate_params, splits, next_task, in_flight, out, fit_outcome>>

fitted == <<results, best_index_, best_params_, best_estimator_, refit_count,
            cv_results_>>

report == <<cv_results, pivoted_cv_results>>

NumTasks == Len(candidate_params) * Len(splits)

\* the number of fits whose outcome deviated from base so far
Deviations == Cardinality({t \in 1..Len(fit_outcome) :
                  fit_outcome[t] # <<>> /\ fit_outcome[t][1] # base})

(***************************************************************************)
(* model_grid_search.fit(data_train, target_train)                         *)
(***************************************************************************)
\* _run_search: ParameterGrid(self.param_grid) is built, then evaluate_candidates
\* lists the candidates and the splits before any task is dispatched
RunSearch ==
    /\ pc = "run_search"
    /\ IF ~GridIsValid(param_grid)
       THEN /\ error' = "InvalidGrid"
            /\ pc' = "error"
            /\ UNCHANGED searchState
       ELSE /\ candidate_params' = ParameterGrid(param_grid)
            /\ splits' = Splits(y, cv)
            /\ next_task' = 1
            /\ in_flight' = {}
            /\ out' = [t \in 1..(Len(candidate_params') * Len(splits')) |-> <<>>]
            /\ fit_outcome' = out'
            /\ pc' = "parallel"
            /\ UNCHANGED error
    /\ UNCHANGED <<inputs, fitted, predict_log, report>>

\* at most n_jobs tasks run at a time
WorkerIsFree(running) == Cardinality(running) < n_jobs

\* a free worker takes the next task, in the order of the product
Dispatch ==
    /\ pc = "parallel"
    /\ next_task <= NumTasks
    /\ WorkerIsFree(in_flight)
    /\ in_flight' = in_flight \cup {next_task}
    /\ next_task' = next_task + 1
    /\ UNCHANGED <<inputs, fit_outcome, pc, error, candidate_params, splits, out,
                   fitted, predict_log, report>>

\* a slip: the results are collected in the order the workers finish
SlotByArrival(t, outs) == CHOOSE i \in 1..Len(outs) :
                              outs[i] = <<>> /\ \A j \in 1..(i - 1) : outs[j] # <<>>

\* Parallel returns the results in the order of the tasks
Slot(t, outs) == t

\* a worker finishes _fit_and_score for task t: a score, or NaN when the fit
\* raised (error_score=nan turns the exception into a FitFailedWarning)
Finish(t) ==
    /\ pc = "parallel"
    /\ t \in in_flight
    /\ \E o \in Outcomes :
        /\ o = base \/ Deviations < budget
        /\ fit_outcome' = [fit_outcome EXCEPT ![t] = <<o>>]
        /\ out' = [out EXCEPT ![Slot(t, out)] =
                      <<FitResult(o, candidate_params[CandOf(t, Len(splits))],
                                  splits[SplitOf(t, Len(splits))])>>]
    /\ in_flight' = in_flight \ {t}
    /\ UNCHANGED <<inputs, pc, error, candidate_params, splits, next_task,
                   fitted, predict_log, report>>

\* the list Parallel hands back: the results that were delivered
RECURSIVE Delivered(_)
Delivered(outs) ==
    IF outs = <<>> THEN <<>>
    ELSE IF Head(outs) = <<>> THEN Delivered(Tail(outs))
    ELSE <<Head(outs)>> \o Delivered(Tail(outs))

\* every task was handed out and none is running
AllReported(nxt, running, n) == nxt > n /\ running = {}

\* Parallel returned: the rest of evaluate_candidates, then best_index_ and
\* best_params_
Join ==
    /\ pc = "parallel"
    /\ AllReported(next_task, in_flight, NumTasks)
    /\ IF Len(out) < 1
       THEN /\ error' = "NoFits"
            /\ pc' = "error"
            /\ UNCHANGED <<results, best_index_, best_params_>>
       ELSE IF Len(Delivered(out)) # Len(candidate_params) * Len(splits)
       THEN /\ error' = "InconsistentSplits"
            /\ pc' = "error"
            /\ UNCHANGED <<results, best_index_, best_params_>>
       ELSE IF AllFitsFailed(out)
       THEN /\ error' = "AllFitsFailed"
            /\ pc' = "error"
            /\ UNCHANGED <<results, best_index_, best_params_>>
       ELSE /\ results' = FormatResults(candidate_params, Len(splits), out)
            /\ best_index_' = SelectBestIndex(results')
            /\ best_params_' = <<results'[best_index_'].params>>
            /\ pc' = "refit"
            /\ UNCHANGED error
    /\ UNCHANGED <<inputs, searchState, best_estimator_, refit_count, cv_results_,
                   predict_log, report>>

\* a slip: the refit uses the first candidate
RefitFirstCandidate(res, best, cands) == cands[1]

\* the parameters best_estimator_ is configured with
RefitParams(res, best, cands) == best[1]

\* best_estimator_ = clone(base_estimator).set_params(**best_params_), fitted on
\* the whole training set; an exception of this fit is not caught
Refit ==
    /\ pc = "refit"
    /\ refit_count' = refit_count + 1
    /\ \E ok \in BOOLEAN :
        /\ best_estimator_' =
               <<[params |-> RefitParams(results, best_params_, candidate_params),
                  fitted |-> ok]>>
        /\ IF ok
           THEN /\ cv_results_' = results
                /\ pc' = "score"
                /\ UNCHANGED error
           ELSE /\ error' = "RefitError"
                /\ pc' = "error"
                /\ UNCHANGED cv_results_
    /\ UNCHANGED <<inputs, searchState, results, best_index_, best_params_,
                   predict_log, report>>

\* model_grid_search.score(data_test, target_test) delegates to best_estimator_
Score ==
    /\ pc = "score"
    /\ predict_log' = Append(predict_log, best_estimator_[1])
    /\ pc' = "predict"
    /\ UNCHANGED <<inputs, searchState, fitted, error, report>>

\* model_grid_search.predict(data_test.iloc[0:5]) delegates to best_estimator_
Predict ==
    /\ pc = "predict"
    /\ predict_log' = Append(predict_log, best_estimator_[1])
    /\ pc' = "cv_results"
    /\ UNCHANGED <<inputs, searchState, fitted, error, report>>

(***************************************************************************)
(* The results table: pd.DataFrame(cv_results_) and the cells that reshape *)
(* it.  A frame is [columns, rows]; a row holds one value per column, so   *)
(* that columns are told apart by position even when names repeat.  The    *)
(* timing columns and the dict-valued "params" column are left out (the    *)
(* notebook drops them at once); std_test_score holds the variance.        *)
(***************************************************************************)
PARAM_ == <<"p", "a", "r", "a", "m", "_">>

MEAN_TEST_SCORE == <<"m", "e", "a", "n", "_", "t", "e", "s", "t", "_", "s", "c", "o", "r", "e">>

STD_TEST_SCORE == <<"s", "t", "d", "_", "t", "e", "s", "t", "_", "s", "c", "o", "r", "e">>

RANK_TEST_SCORE == <<"r", "a", "n", "k", "_", "t", "e", "s", "t", "_", "s", "c", "o", "r", "e">>

SPLIT == <<"s", "p", "l", "i", "t">>

TEST_SCORE_SUFFIX == <<"_", "t", "e", "s", "t", "_", "s", "c", "o", "r", "e">>

LEARNING_RATE == <<"l", "e", "a", "r", "n", "i", "n", "g", "_", "r", "a", "t", "e">>

MAX_LEAF_NODES == <<"m", "a", "x", "_", "l", "e", "a", "f", "_", "n", "o", "d", "e", "s">>

CLASSIFIER__ == <<"c", "l", "a", "s", "s", "i", "f", "i", "e", "r", "_", "_">>

Digits == <<"0", "1", "2", "3", "4", "5", "6", "7", "8", "9">>

\* the names of a candidate's parameters, in the order of its items (sorted)
ParamNames(grid) == [k \in 1..Len(grid) |-> SortedItems(grid)[k].name]

\* pd.DataFrame(model_grid_search.cv_results_)
DataFrame(res, grid, n_splits) ==
    LET names == ParamNames(grid)
        np == Len(names)
    IN  [columns |->
            [k \in 1..np |-> PARAM_ \o names[k]]
            \o [i \in 1..n_splits |-> SPLIT \o <<Digits[i]>> \o TEST_SCORE_SUFFIX]
            \o <<MEAN_TEST_SCORE, STD_TEST_SCORE, RANK_TEST_SCORE>>,
         rows |->
            [c \in 1..Len(res) |->
                [k \in 1..np |-> res[c].params[names[k]]]
                \o res[c].split_test_score
                \o <<res[c].mean_test_score, res[c].std_test_score,
                     Float(res[c].rank_test_score, 1)>>]]

\* the positions of the columns called name
ColumnsNamed(frame, name) ==
    {i \in 1..Len(frame.columns) : frame.columns[i] = name}

ColumnIndex(frame, name) == CHOOSE i \in ColumnsNamed(frame, name) : TRUE

\* sort_values(by, ascending=False): larger values first, NaN last, ties in
\* their original order (numpy sorts fewer than 17 rows by insertion)
RECURSIVE InsertRow(_, _, _)
InsertRow(row, sorted, col) ==
    IF sorted = <<>> THEN <<row>>
    ELSE IF row[col].nan THEN sorted \o <<row>>
    ELSE IF Head(sorted)[col].nan \/ FLess(Head(sorted)[col], row[col])
    THEN <<row>> \o sorted
    ELSE <<Head(sorted)>> \o InsertRow(row, Tail(sorted), col)

RECURSIVE SortRows(_, _, _)
SortRows(rows, n, col) ==
    IF n = 0 THEN <<>>
    ELSE InsertRow(rows[n], SortRows(rows, n - 1, col), col)

SortValuesDescending(frame, by) ==
    [columns |-> frame.columns,
     rows |-> SortRows(frame.rows, Len(frame.rows), ColumnIndex(frame, by))]

\* cv_results = pd.DataFrame(cv_results_).sort_values("mean_test_score", ...)
SortValues ==
    /\ pc = "cv_results"
    /\ cv_results' = SortValuesDescending(DataFrame(cv_results_, param_grid, cv),
                                          MEAN_TEST_SCORE)
    /\ pc' = "column_results"
    /\ UNCHANGED <<inputs, searchState, fitted, error, predict_log,
                   pivoted_cv_results>>

\* column_results: "param_" + name for the grid's keys, then the three metrics
ColumnResults(grid) ==
    [k \in 1..Len(grid) |-> PARAM_ \o grid[k].name]
    \o <<MEAN_TEST_SCORE, STD_TEST_SCORE, RANK_TEST_SCORE>>

\* cv_results[column_results]
Project(frame, names) ==
    [columns |-> names,
     rows |-> [r \in 1..Len(frame.rows) |->
                  [k \in 1..Len(names) |-> frame.rows[r][ColumnIndex(frame, names[k])]]]]

SelectColumns ==
    /\ pc = "column_results"
    /\ cv_results' = Project(cv_results, ColumnResults(param_grid))
    /\ pc' = "rename"
    /\ UNCHANGED <<inputs, searchState, fitted, error, predict_log,
                   pivoted_cv_results>>

\* a slip: a label that is already taken is not given to a second column
RECURSIVE RenameUnlessTaken(_, _)
RenameUnlessTaken(names, done) ==
    IF names = <<>> THEN done
    ELSE LET new == shorten_param(Head(names))
             taken == \E k \in 1..Len(done) : done[k] = new
         IN  RenameUnlessTaken(Tail(names),
                               Append(done, IF taken THEN Head(names) ELSE new))

RenameColumnsUnique(frame) ==
    [columns |-> RenameUnlessTaken(frame.columns, <<>>), rows |-> frame.rows]

\* DataFrame.rename(mapper, axis=1): every label is replaced by mapper(label);
\* nothing checks that the new labels differ
RenameColumns(frame) ==
    [columns |-> [k \in 1..Len(frame.columns) |-> shorten_param(frame.columns[k])],
     rows |-> frame.rows]

\* cv_results = cv_results.rename(shorten_param, axis=1)
Rename ==
    /\ pc = "rename"
    /\ cv_results' = RenameColumns(cv_results)
    /\ pc' = "pivot"
    /\ UNCHANGED <<inputs, searchState, fitted, error, predict_log,
                   pivoted_cv_results>>

(***************************************************************************)
(* cv_results.pivot_table(values=..., index=[...], columns=[...]), with    *)
(* the defaults aggfunc="mean" and dropna=True.                            *)
(***************************************************************************)
AddF(a, b) == Float(a.num * b.den + b.num * a.den, a.den * b.den)

\* the sum of the values rows[r][col] over the rows r of rs (a sequence)
RECURSIVE SumColumn(_, _, _)
SumColumn(rows, rs, col) ==
    IF rs = <<>> THEN Float(0, 1)
    ELSE AddF(rows[Head(rs)][col], SumColumn(rows, Tail(rs), col))

\* the elements of a finite set of row numbers, ascending
RECURSIVE Ascending(_)
Ascending(S) ==
    IF S = {} THEN <<>>
    ELSE LET m == CHOOSE x \in S : \A z \in S : x <= z
         IN  <<m>> \o Ascending(S \ {m})

\* groupby(...).mean(): the mean of the group's values that are not NaN
GroupMean(rows, members, col) ==
    LET valid == {r \in members : ~rows[r][col].nan}
        total == SumColumn(rows, Ascending(valid), col)
    IN  IF valid = {} THEN NaN
        ELSE Float(total.num, total.den * Cardinality(valid))

\* the labels of an axis, ascending
RECURSIVE SortLabels(_)
SortLabels(S) ==
    IF S = {} THEN <<>>
    ELSE LET m == CHOOSE x \in S : \A z \in S : ~FLess(z, x)
         IN  <<m>> \o SortLabels(S \ {m})

\* a slip: index and columns are swapped
PivotSwapped(frame, values, index, columns) ==
    LET vc == ColumnIndex(frame, values)
        ic == ColumnIndex(frame, columns)
        cc == ColumnIndex(frame, index)
        R == 1..Len(frame.rows)
        members(a, b) == {r \in R : frame.rows[r][ic] = a /\ frame.rows[r][cc] = b}
        kept == {r \in R : ~GroupMean(frame.rows,
                     members(frame.rows[r][ic], frame.rows[r][cc]), vc).nan}
        idx == SortLabels({frame.rows[r][ic] : r \in kept})
        cols == SortLabels({frame.rows[r][cc] : r \in kept})
    IN  [index |-> idx,
         columns |-> cols,
         values |-> [i \in 1..Len(idx) |-> [j \in 1..Len(cols) |->
                        IF members(idx[i], cols[j]) = {} THEN NaN
                        ELSE GroupMean(frame.rows, members(idx[i], cols[j]), vc)]]]

\* the pivoted table: groups whose mean is NaN are dropped (dropna), the labels
\* that remain are sorted, and a cell without a group is NaN
Pivot(frame, values, index, columns) ==
    LET vc == ColumnIndex(frame, values)
        ic == ColumnIndex(frame, index)
        cc == ColumnIndex(frame, columns)
        R == 1..Len(frame.rows)
        members(a, b) == {r \in R : frame.rows[r][ic] = a /\ frame.rows[r][cc] = b}
        kept == {r \in R : ~GroupMean(frame.rows,
                     members(frame.rows[r][ic], frame.rows[r][cc]), vc).nan}
        idx == SortLabels({frame.rows[r][ic] : r \in kept})
        cols == SortLabels({frame.rows[r][cc] : r \in kept})
    IN  [index |-> idx,
         columns |-> cols,
         values |-> [i \in 1..Len(idx) |-> [j \in 1..Len(cols) |->
                        IF members(idx[i], cols[j]) = {} THEN NaN
                        ELSE GroupMean(frame.rows, members(idx[i], cols[j]), vc)]]]

EmptyFrame == [columns |-> <<>>, rows |-> <<>>]

EmptyPivot == [index |-> <<>>, columns |-> <<>>, values |-> <<>>]

\* pivoted_cv_results = cv_results.pivot_table(values="mean_test_score",
\* index=["learning_rate"], columns=["max_leaf_nodes"]); a name that is not the
\* label of exactly one column is an error (KeyError, or ValueError if repeated)
PivotTable ==
    /\ pc = "pivot"
    /\ IF \E name \in {MEAN_TEST_SCORE, LEARNING_RATE, MAX_LEAF_NODES} :
              Cardinality(ColumnsNamed(cv_results, name)) # 1
       THEN /\ error' = "KeyError"
            /\ pc' = "error"
            /\ UNCHANGED pivoted_cv_results
       ELSE /\ pivoted_cv_results' =
                   Pivot(cv_results, MEAN_TEST_SCORE, LEARNING_RATE, MAX_LEAF_NODES)
            /\ pc' = "done"
            /\ UNCHANGED error
    /\ UNCHANGED <<inputs, searchState, fitted, predict_log, cv_results>>

(***************************************************************************)
(* Inputs.                                                                 *)
(***************************************************************************)
\* param_grid of the notebook
NotebookGrid ==
    << [name |-> CLASSIFIER__ \o LEARNING_RATE,
        values |-> <<Float(1, 100), Float(1, 10), Float(1, 1), Float(10, 1)>>],
       [name |-> CLASSIFIER__ \o MAX_LEAF_NODES,
        values |-> <<Float(3, 1), Float(10, 1), Float(30, 1)>>] >>

\* a small training target: two rows of each class
DefaultY == <<0, 1, 0, 1>>

NamePool == << <<"a">>, <<"b">>, <<"c">>, <<"d">> >>

InOrder(n) == {[k \in 1..n |-> k]}

Perms(n) == {f \in [1..n -> 1..n] : \A i, j \in 1..n : i # j => f[i] # f[j]}

\* len(ParameterGrid(grid)): the product of the lengths of the value sequences
RECURSIVE GridSize(_)
GridSize(grid) ==
    IF grid = <<>> THEN 1 ELSE Len(Head(grid).values) * GridSize(Tail(grid))

\* value sequences without repeats: (1), (1, 2), ... and the empty one
DistinctSeqs == {[i \in 1..n |-> Float(i, 1)] : n \in 0..MaxVals}

\* value sequences that may repeat a value, up to renaming of the values
RepeatSeqs ==
    UNION {{s \in [1..n -> {Float(i, 1) : i \in 1..MaxVals}] :
               \A i \in 1..n : s[i].num <= 1 + Cardinality({s[j].num : j \in 1..(i - 1)})}
           : n \in 0..MaxVals}

\* grids of 1..MaxParams parameters and at most MaxCands candidates, the
\* parameters named from NamePool, inserted in any order or in NamePool's
GridsOver(seqs, anyOrder) ==
    UNION {{g \in {[k \in 1..n |-> [name |-> NamePool[f[k]], values |-> vs[k]]] :
                      f \in IF anyOrder THEN Perms(n) ELSE InOrder(n), vs \in [1..n -> seqs]} :
               GridSize(g) <= MaxCands}
           : n \in 1..MaxParams}

\* names over {a, _} of 1..MaxLen characters
Names == UNION {[1..n -> {"a", "_"}] : n \in 1..MaxLen}

\* a grid with the given parameter names, one value each
NamedGrid(names) ==
    [k \in 1..Len(names) |-> [name |-> names[k], values |-> <<Float(k, 1)>>]]

\* binary targets of k..MaxRows rows that the splitter accepts for k splits
Targets(k) ==
    UNION {{t \in [1..n -> {0, 1}] : t[1] = 0 /\ SplitIsValid(t, k)}
           : n \in k..MaxRows}

InitWith(grid, target, k, b, bud) ==
    /\ param_grid = grid
    /\ y = target
    /\ cv = k
    /\ base = b
    /\ budget = bud
    /\ fit_outcome = <<>>
    /\ pc = "run_search"
    /\ error = "none"
    /\ candidate_params = <<>>
    /\ splits = <<>>
    /\ next_task = 1
    /\ in_flight = {}
    /\ out = <<>>
    /\ results = <<>>
    /\ best_index_ = 0
    /\ best_params_ = <<>>
    /\ best_estimator_ = <<>>
    /\ refit_count = 0
    /\ cv_results_ = <<>>
    /\ predict_log = <<>>
    /\ cv_results = EmptyFrame
    /\ pivoted_cv_results = EmptyPivot

\* the search on small grids: every fit gives the outcome `base`, except for
\* at most MaxSpecial fits that give any other outcome
Init == \E g \in GridsOver(DistinctSeqs, FALSE), b \in Outcomes :
            InitWith(g, DefaultY, NotebookCv, b, MaxSpecial)

\* grids in any insertion order whose value sequences may repeat values, and
\* the notebook's grid; all fits give the same outcome
InitGrid == \E g \in GridsOver(RepeatSeqs, TRUE) \cup {NotebookGrid}, b \in Outcomes :
                InitWith(g, DefaultY, NotebookCv, b, 0)

\* training targets of every size and class layout and 2..MaxSplits splits,
\* one-parameter grids; at most one fit deviates
InitData == \E g \in GridsOver(DistinctSeqs, FALSE), k \in NotebookCv..MaxSplits,
               b \in Outcomes :
                /\ Len(g) = 1
                /\ \E t \in Targets(k) : InitWith(g, t, k, b, 1)

\* the notebook's grid; at most one of the 24 fits deviates from the others
InitNotebook == \E b \in Outcomes : InitWith(NotebookGrid, DefaultY, NotebookCv, b, 1)

\* grids of one or two parameters with arbitrary names, and the notebook's
\* grid; every fit succeeds
InitReporter ==
    \/ \E a, b \in Names :
           InitWith(IF a = b THEN NamedGrid(<<a>>) ELSE NamedGrid(<<a, b>>),
                    DefaultY, NotebookCv, Float(MaxScore, 1), 0)
    \/ InitWith(NotebookGrid, DefaultY, NotebookCv, Float(MaxScore, 1), 0)

Next ==
    \/ RunSearch
    \/ Dispatch
    \/ \E t \in 1..NumTasks : Finish(t)
    \/ Join
    \/ Refit
    \/ Score
    \/ Predict

NextNotebook ==
    \/ Next
    \/ SortValues
    \/ SelectColumns
    \/ Rename
    \/ PivotTable

Spec == Init /\ [][Next]_vars

GridSpec == InitGrid /\ [][Next]_vars

DataSpec == InitData /\ [][Next]_vars

NotebookSpec == InitNotebook /\ [][NextNotebook]_vars

ReporterSpec == InitReporter /\ [][NextNotebook]_vars

(***************************************************************************)
(* Properties.                                                             *)
(***************************************************************************)
\* the grid was expanded into candidate_params
Expanded == pc # "run_search" /\ error # "InvalidGrid"

\* fit returned: cv_results_ is set
SearchSucceeded == cv_results_ # <<>>

AllRecorded ==
    \A t \in 1..NumTasks : t <= Len(fit_outcome) /\ fit_outcome[t] # <<>> /\ out[t] # <<>>

SomeFitFailed ==
    \E t \in 1..Len(fit_outcome) : fit_outcome[t] # <<>> /\ fit_outcome[t][1].nan

AllFitsScored ==
    \A t \in 1..Len(fit_outcome) : fit_outcome[t] # <<>> /\ ~fit_outcome[t][1].nan

\* the outcomes of the fits of candidate c, in fold order
FoldOutcomes(c) == [i \in 1..cv |-> fit_outcome[(c - 1) * cv + i][1]]

NoRepeats(vs) == \A i, j \in 1..Len(vs) : i # j => vs[i] # vs[j]

\* params gives every parameter of the grid one of its values
AssignsEveryParameter(params) ==
    /\ DOMAIN params = {param_grid[k].name : k \in 1..Len(param_grid)}
    /\ \A k \in 1..Len(param_grid) :
           \E i \in 1..Len(param_grid[k].values) :
               params[param_grid[k].name] = param_grid[k].values[i]

PairwiseDistinct(xs) == \A c, d \in 1..Len(xs) : c # d => xs[c] # xs[d]

C1_CountAndShape ==
    /\ Expanded =>
           /\ Len(candidate_params) = GridSize(param_grid)
           /\ \A c \in 1..Len(candidate_params) :
                  AssignsEveryParameter(candidate_params[c])
    /\ param_grid = NotebookGrid =>
           /\ Expanded => Len(candidate_params) = 12
           /\ results # <<>> => Len(results) = 12
           /\ cv_results_ # <<>> => Len(cv_results_) = 12

\* C1 as stated: a grid with value sequences of sizes n1..nk >= 1 expands to
\* exactly n1*...*nk combinations, each giving every parameter one of its
\* values, and no two combinations are equal; the notebook's grid gives 12
\* combinations and 12 result rows.
C1_Original ==
    /\ C1_CountAndShape
    /\ Expanded => PairwiseDistinct(candidate_params)

\* C1, amended: a grid with value sequences of sizes n1..nk >= 1 expands to
\* exactly n1*...*nk combinations, each giving every parameter one of its
\* values; no two combinations are equal when no value sequence lists a value
\* twice; the notebook's grid gives 12 combinations and 12 result rows.
C1_Expansion ==
    /\ C1_CountAndShape
    /\ (Expanded /\ \A k \in 1..Len(param_grid) : NoRepeats(param_grid[k].values))
           => PairwiseDistinct(candidate_params)

C1_Witness ==
    /\ param_grid = NotebookGrid
    /\ Len(cv_results_) = 12
    /\ PairwiseDistinct(candidate_params)

\* C2: once the search has ranked the candidates, best_params_ is the
\* combination at best_index_, it has rank 1, no combination has a mean
\* strictly greater than its mean (a NaN mean is best only when every mean is
\* NaN), and every mean is the average of the combination's cv fold scores.
C2_BestHasRankOne ==
    results # <<>> =>
        /\ best_index_ \in 1..Len(results)
        /\ best_params_ = <<candidate_params[best_index_]>>
        /\ results[best_index_].params = candidate_params[best_index_]
        /\ results[best_index_].rank_test_score = 1
        /\ \A c \in 1..Len(results) :
               ~FLess(results[best_index_].mean_test_score, results[c].mean_test_score)
        /\ results[best_index_].mean_test_score.nan =>
               \A c \in 1..Len(results) : results[c].mean_test_score.nan
        /\ \A c \in 1..Len(results) :
               LET m == results[c].mean_test_score
                   sc == FoldOutcomes(c)
               IN  IF AnyNaN(sc) THEN m.nan
                   ELSE ~m.nan /\ m.num * cv = SumNum(sc) * m.den

C2_Witness ==
    /\ SearchSucceeded
    /\ best_index_ > 1
    /\ \E c, d \in 1..Len(results) :
           /\ FLess(results[c].mean_test_score, results[best_index_].mean_test_score)
           /\ results[d].mean_test_score.nan

\* C3: after the rename every column is called by the part of its former name
\* that follows the last "__", or by its former name if that has no "__";
\* "param_classifier__learning_rate" becomes "learning_rate".
LastSep(name) ==
    CHOOSE i \in 1..Len(name) :
        /\ OccursAt(name, SEP, i)
        /\ \A j \in (i + 1)..Len(name) : ~OccursAt(name, SEP, j)

BareName(name) ==
    IF \E i \in 1..Len(name) : OccursAt(name, SEP, i)
    THEN SubSeq(name, LastSep(name) + Len(SEP), Len(name))
    ELSE name

\* the rename cell has run
Renamed == pc \in {"pivot", "done"} \/ error = "KeyError"

C3_ShortenParam ==
    Renamed =>
        /\ Len(cv_results.columns) = Len(ColumnResults(param_grid))
        /\ \A k \in 1..Len(cv_results.columns) :
               cv_results.columns[k] = BareName(ColumnResults(param_grid)[k])
        /\ param_grid = NotebookGrid =>
               cv_results.columns = <<LEARNING_RATE, MAX_LEAF_NODES, MEAN_TEST_SCORE,
                                      STD_TEST_SCORE, RANK_TEST_SCORE>>

C3_Witness ==
    /\ Renamed
    /\ \E k \in 1..Len(cv_results.columns) :
           LET old == ColumnResults(param_grid)[k]
           IN  /\ Cardinality({i \in 1..Len(old) : OccursAt(old, SEP, i)}) >= 2
               /\ cv_results.columns[k] # old
               /\ cv_results.columns[k] # <<>>
    /\ \E k \in 1..Len(cv_results.columns) :
           cv_results.columns[k] = ColumnResults(param_grid)[k]

\* the notebook's parameter names
LR == CLASSIFIER__ \o LEARNING_RATE

MLN == CLASSIFIER__ \o MAX_LEAF_NODES

\* the mean test score of the combination {learning_rate: lr, max_leaf_nodes: mln}
MeanOfCombination(lr, mln) ==
    cv_results_[CHOOSE c \in 1..Len(cv_results_) :
                    /\ cv_results_[c].params[LR] = lr
                    /\ cv_results_[c].params[MLN] = mln].mean_test_score

FullTable(p) ==
    /\ p.index = <<Float(1, 100), Float(1, 10), Float(1, 1), Float(10, 1)>>
    /\ p.columns = <<Float(3, 1), Float(10, 1), Float(30, 1)>>
    /\ Len(p.values) = 4
    /\ \A i \in 1..4 :
           /\ Len(p.values[i]) = 3
           /\ \A j \in 1..3 :
                  /\ ~p.values[i][j].nan
                  /\ FEq(p.values[i][j], MeanOfCombination(p.index[i], p.columns[j]))

C5_RefitOnce ==
    /\ refit_count <= 1
    /\ refit_count = 0 => best_estimator_ = <<>> /\ predict_log = <<>> /\ ~SearchSucceeded
    /\ refit_count = 1 =>
           /\ AllRecorded
           /\ in_flight = {}
           /\ results # <<>>
           /\ results[best_index_].rank_test_score = 1
           /\ Len(best_estimator_) = 1
           /\ best_estimator_[1].params = results[best_index_].params
           /\ best_estimator_[1].fitted <=> error = "none"
    /\ SearchSucceeded => refit_count = 1 /\ best_estimator_[1].fitted
    /\ \A k \in 1..Len(predict_log) :
           predict_log[k] = [params |-> results[best_index_].params, fitted |-> TRUE]

C5_Witness ==
    /\ pc = "cv_results"
    /\ Len(predict_log) = 2
    /\ refit_count = 1
    /\ best_index_ > 1

SequentialOut ==
    [t \in 1..NumTasks |->
        <<FitResult(fit_outcome[t][1], candidate_params[CandOf(t, cv)],
                    splits[SplitOf(t, cv)])>>]

\* C7: at most n_jobs tasks are running at any time, the ranking is made only
\* after every task reported, and the results table and the best combination
\* are those of the run that fits the tasks one after the other.
C7_Workers ==
    /\ Cardinality(in_flight) <= n_jobs
    /\ in_flight \subseteq 1..(next_task - 1)
    /\ results # <<>> =>
           /\ in_flight = {}
           /\ AllRecorded
           /\ candidate_params = ParameterGrid(param_grid)
           /\ \A outs \in {SequentialOut} :
                  \A sequential \in {FormatResults(candidate_params, cv, outs)} :
                      /\ results = sequential
                      /\ best_params_ = <<sequential[SelectBestIndex(sequential)].params>>

C7_Witness ==
    /\ Cardinality(in_flight) = n_jobs
    /\ \E t \in in_flight, u \in 1..NumTasks :
           /\ u > t
           /\ fit_outcome[u] # <<>>
           /\ fit_outcome[u][1] # base

\* C8: a grid with a value sequence of length 0 makes the search fail with the
\* invalid-grid error, and no task was handed to a worker and nothing was
\* fitted before.
C8_EmptySequence ==
    (\E k \in 1..Len(param_grid) : Len(param_grid[k].values) = 0) =>
        /\ pc \in {"run_search", "error"}
        /\ pc = "error" => error = "InvalidGrid"
        /\ next_task = 1
        /\ in_flight = {}
        /\ out = <<>>
        /\ fit_outcome = <<>>
        /\ refit_count = 0
        /\ best_estimator_ = <<>>

C8_Witness ==
    /\ pc = "error"
    /\ error = "InvalidGrid"
    /\ Len(param_grid) = MaxParams
    /\ \E k \in 1..Len(param_grid) : Len(param_grid[k].values) > 0

\* two columns would get the same name
NamesCollide ==
    \E i, j \in 1..Len(ColumnResults(param_grid)) :
        /\ i # j
        /\ BareName(ColumnResults(param_grid)[i]) = BareName(ColumnResults(param_grid)[j])

C10_Folds ==
    /\ splits # <<>> =>
           /\ Len(splits) = cv
           /\ \A r \in Rows(y) : Cardinality({i \in 1..cv : r \in splits[i].test}) = 1
    /\ \A t \in 1..Len(out) :
           out[t] # <<>> =>
               /\ out[t][1].train \cap out[t][1].test = {}
               /\ out[t][1].train \cup out[t][1].test = Rows(y)
               /\ out[t][1].test = splits[SplitOf(t, cv)].test
               /\ out[t][1].parameters = candidate_params[CandOf(t, cv)]
    /\ results # <<>> =>
           \A c \in 1..Len(results) :
               /\ Len(results[c].split_test_score) = cv
               /\ \A i \in 1..cv :
                      results[c].split_test_score[i] = fit_outcome[(c - 1) * cv + i][1]

C10_Witness ==
    /\ SearchSucceeded
    /\ cv > NotebookCv
    /\ Cardinality(Classes(y)) = 2
    /\ Len(candidate_params) > 1
    /\ \E t \in 1..NumTasks : out[t][1].test # {} /\ out[t][1].train # {}

=============================================================================
